---- MODULE Spec2Model ----
(***************************************************************************)
(* Model of src/App.py: the Streamlit script that fetches the DJIA close   *)
(* series and the CPI series, aligns them (get_data), renders a chart,     *)
(* computes summary statistics and writes a commentary.                    *)
(*                                                                         *)
(* The file as committed does not compile: lines 100-101 are dedented to   *)
(* column 0 inside the try statement that opens at line 52, so loading the *)
(* script raises SyntaxError at line 100 and no statement of it executes.  *)
(* Spec is the script as committed: a run ends in that SyntaxError.        *)
(*                                                                         *)
(* SpecFn and SpecFnRaw read the code statement by statement: Init draws   *)
(* the inputs and the actions apply, in source order, get_data (lines      *)
(* 20-51), the chart of lines 56-62, the expressions of lines 68-71, the   *)
(* metrics of lines 74-77 and the commentary of lines 83-99.               *)
(* SpecGet applies get_data alone.                                         *)
(*                                                                         *)
(* Numbers are float64 cells.  A cell is modelled by the exact value of    *)
(* the real number it stands for (sign, numerator, denominator, with the   *)
(* IEEE signed zeros, infinities and NaN) and a flag r that is TRUE when   *)
(* the float64 cell may differ from that value by rounding.  A cell with   *)
(* r = FALSE is the float64 cell bit for bit.  The 53-bit significand of a *)
(* rounded cell is not computed; where the outcome of an operation depends *)
(* on it (a rounded cell of value 0 as a factor of inf or as a divisor)    *)
(* the result is the open cell Any.                                        *)
(***************************************************************************)
EXTENDS Integers, Sequences, FiniteSets

\* ------------------------------------------------------------------ bounds
MaxDate == 3
MaxVal == 2

Dates == 1..MaxDate

\* yf.download's end is exclusive: it may lie one day past the last date
Ends == 1..(MaxDate + 1)
Vals == 1..MaxVal
RawVals == {-1, 0, 1}

\* ------------------------------------------------------- float64 arithmetic
Abs(i) == IF i < 0 THEN -i ELSE i

RECURSIVE GCD(_, _)
GCD(a, b) == IF b = 0 THEN a ELSE GCD(b, a % b)

RECURSIVE IsPow2(_)
IsPow2(d) == IF d = 1 THEN TRUE ELSE IF d < 1 \/ d % 2 = 1 THEN FALSE ELSE IsPow2(d \div 2)

NaN == [s |-> 1, n |-> 0, d |-> 0, r |-> FALSE]

\* a cell the model leaves open: any float64, NaN and the infinities included
Any == [s |-> 1, n |-> 0, d |-> 0, r |-> TRUE]

\* a cell within rounding of zero: +0, -0 or a tiny value of either sign
RoundZero == [s |-> 1, n |-> 0, d |-> 1, r |-> TRUE]

\* the cell of value s * n / d, in lowest terms; rnd says whether rounding
\* may have touched it
Mk(s, n, d, rnd) ==
    IF n = 0 /\ d = 0 THEN NaN
    ELSE IF d = 0 THEN [s |-> s, n |-> 1, d |-> 0, r |-> FALSE]
    ELSE IF n = 0 THEN (IF rnd THEN RoundZero ELSE [s |-> s, n |-> 0, d |-> 1, r |-> FALSE])
    ELSE LET g == GCD(n, d) IN [s |-> s, n |-> n \div g, d |-> d \div g, r |-> rnd]

FromInt(i) == Mk(IF i < 0 THEN -1 ELSE 1, Abs(i), 1, FALSE)

IsNaN(x) == x.n = 0 /\ x.d = 0 /\ ~x.r
IsAny(x) == x.n = 0 /\ x.d = 0 /\ x.r
IsInf(x) == x.n # 0 /\ x.d = 0
IsExactZero(x) == x.n = 0 /\ x.d # 0 /\ ~x.r
IsRoundZero(x) == x.n = 0 /\ x.d # 0 /\ x.r

Neg(x) == IF x.n = 0 /\ (x.d = 0 \/ x.r) THEN x ELSE [x EXCEPT !.s = -x.s]

\* the result of an operation on a and b whose exact value has denominator d
\* is rounded when an operand was, or when the value is not a binary fraction
Rounded(a, b, d) == a.r \/ b.r \/ ~IsPow2(d)

\* float64 '*'.  Factors are reduced before the product is formed, so that
\* the exact value stays inside TLC's integers.  An exact 0 times a finite
\* cell is an exact signed 0, 0 * inf is NaN; a cell within rounding of zero
\* times inf is left open.
Mul(a, b) ==
    IF IsNaN(a) \/ IsNaN(b) THEN NaN
    ELSE IF IsAny(a) \/ IsAny(b) THEN Any
    ELSE IF IsRoundZero(a) \/ IsRoundZero(b)
         THEN (IF IsInf(a) \/ IsInf(b) THEN Any ELSE RoundZero)
    ELSE IF a.n = 0 \/ a.d = 0 \/ b.n = 0 \/ b.d = 0
         THEN Mk(a.s * b.s, a.n * b.n, a.d * b.d, FALSE)
    ELSE LET g1 == GCD(a.n, b.d)
             g2 == GCD(b.n, a.d)
             n  == (a.n \div g1) * (b.n \div g2)
             d  == (a.d \div g2) * (b.d \div g1)
         IN Mk(a.s * b.s, n, d, Rounded(a, b, d))

\* float64 '/': x / 0 is +-inf, 0 / 0 and inf / inf are NaN, x / inf is 0;
\* a quotient by a cell within rounding of zero is left open
Div(a, b) ==
    IF IsNaN(a) \/ IsNaN(b) THEN NaN
    ELSE IF IsAny(a) \/ IsAny(b) \/ IsRoundZero(b) THEN Any
    ELSE IF IsRoundZero(a)
         THEN (IF IsExactZero(b) THEN Any ELSE RoundZero)
    ELSE IF a.n = 0 \/ a.d = 0 \/ b.n = 0 \/ b.d = 0
         THEN Mk(a.s * b.s, a.n * b.d, a.d * b.n, FALSE)
    ELSE LET g1 == GCD(a.n, b.n)
             g2 == GCD(b.d, a.d)
             n  == (a.n \div g1) * (b.d \div g2)
             d  == (a.d \div g2) * (b.n \div g1)
         IN Mk(a.s * b.s, n, d, Rounded(a, b, d))

\* float64 '+'
Add(a, b) ==
    IF IsNaN(a) \/ IsNaN(b) THEN NaN
    ELSE IF IsAny(a) \/ IsAny(b) THEN Any
    ELSE IF IsInf(a) /\ IsInf(b) THEN (IF a.s = b.s THEN a ELSE NaN)
    ELSE IF IsInf(a) THEN a
    ELSE IF IsInf(b) THEN b
    ELSE LET g == GCD(a.d, b.d)
             num == a.s * a.n * (b.d \div g) + b.s * b.n * (a.d \div g)
             den == (a.d \div g) * b.d
         IN IF num = 0
            THEN Mk(IF a.s = -1 /\ b.s = -1 THEN -1 ELSE 1, 0, den, a.r \/ b.r)
            ELSE LET gg == GCD(Abs(num), den)
                 IN Mk(IF num < 0 THEN -1 ELSE 1, Abs(num), den, Rounded(a, b, den \div gg))

\* float64 '-'
Sub(a, b) == Add(a, Neg(b))

\* order of the exact values of two finite cells: -1, 0 or 1
Cmp(a, b) ==
    LET df == Add([a EXCEPT !.r = FALSE], Neg([b EXCEPT !.r = FALSE]))
    IN IF df.n = 0 THEN 0 ELSE df.s

RECURSIVE SumFrom(_, _)
SumFrom(xs, i) == IF i > Len(xs) THEN FromInt(0) ELSE Add(xs[i], SumFrom(xs, i + 1))

Sum(xs) == SumFrom(xs, 1)

\* ------------------------------------------------------------ raw series
\* A fetched series is a sequence of [Date, v] readings in increasing date
\* order, one reading per date.
Min(S) == CHOOSE m \in S : \A x \in S : m <= x

RECURSIVE SeriesOf(_, _)
SeriesOf(f, S) ==
    IF S = {} THEN <<>>
    ELSE LET m == Min(S)
         IN <<[Date |-> m, v |-> f[m]]>> \o SeriesOf(f, S \ {m})

\* ------------------------------------------------------------ get_data
\* lines 23-27: the Close column as a one-column frame named DJIA
DjiaFrame(raw) == [i \in 1..Len(raw) |-> [Date |-> raw[i].Date, DJIA |-> FromInt(raw[i].v)]]

\* lines 31-36: the FRED CSV as a frame indexed by Date with column CPI
CpiFrame(raw) == [i \in 1..Len(raw) |-> [Date |-> raw[i].Date, CPI |-> FromInt(raw[i].v)]]

\* line 39: cpi.loc[start:end], a label slice inclusive at both ends
Truncate(cpi, s, e) == SelectSeq(cpi, LAMBDA r : s <= r.Date /\ r.Date <= e)

\* line 43: djia.join(cpi, how='left') - one row per DJIA date; the CPI cell
\* is the reading with exactly that date, NaN when there is none
Join(djia, cpi) ==
    [i \in 1..Len(djia) |->
        LET hit == {k \in 1..Len(cpi) : cpi[k].Date = djia[i].Date}
        IN [Date |-> djia[i].Date,
            DJIA |-> djia[i].DJIA,
            CPI  |-> IF hit = {} THEN NaN ELSE cpi[CHOOSE k \in hit : TRUE].CPI]]

\* line 43: .ffill() - every NaN cell takes the last non-NaN cell above it
LastValid(rows, i, col) ==
    LET ok == {j \in 1..i : ~IsNaN(rows[j][col])}
    IN IF ok = {} THEN NaN
       ELSE rows[CHOOSE j \in ok : \A k \in ok : k <= j][col]

FFill(rows) ==
    [i \in 1..Len(rows) |->
        [Date |-> rows[i].Date,
         DJIA |-> LastValid(rows, i, "DJIA"),
         CPI  |-> LastValid(rows, i, "CPI")]]

\* line 43: .dropna() - remove every row holding a NaN cell
DropNa(rows) == SelectSeq(rows, LAMBDA r : ~IsNaN(r.DJIA) /\ ~IsNaN(r.CPI))

\* variant: no truncation, and every price date takes the latest reading dated
\* at or before it
AlignedUntruncated(djiaRaw, cpiRaw, s, e) ==
    LET dj == DjiaFrame(djiaRaw)
        cp == CpiFrame(cpiRaw)
    IN DropNa([i \in 1..Len(dj) |->
          LET before == {k \in 1..Len(cp) : cp[k].Date <= dj[i].Date}
          IN [Date |-> dj[i].Date,
              DJIA |-> dj[i].DJIA,
              CPI  |-> IF before = {} THEN NaN
                       ELSE cp[CHOOSE k \in before : \A j \in before : j <= k].CPI]])

\* lines 39-43: the aligned frame, before the index columns are added
Aligned(djiaRaw, cpiRaw, s, e) ==
    DropNa(FFill(Join(DjiaFrame(djiaRaw), Truncate(CpiFrame(cpiRaw), s, e))))

\* variant: the base price is read from the first fetched row instead of the
\* first aligned row
BasePriceRaw(al, djiaRaw) == FromInt(djiaRaw[1].v)

\* line 46: data['DJIA'].iloc[0]
BasePrice(al, djiaRaw) == al[1].DJIA

\* variant: the base CPI is the first reading of the CSV (an external base
\* period) instead of the first aligned row
BaseMacroRaw(al, cpiRaw) == FromInt(cpiRaw[1].v)

\* line 47: data['CPI'].iloc[0]
BaseMacro(al, cpiRaw) == al[1].CPI

\* line 50
RealValue(pidx, midx) == Mul(Div(pidx, midx), FromInt(100))

\* lines 46-50: the three derived columns
Indexed(al, djiaRaw, cpiRaw) ==
    LET p0 == BasePrice(al, djiaRaw)
        m0 == BaseMacro(al, cpiRaw)
    IN [i \in 1..Len(al) |->
          LET pidx == Mul(Div(al[i].DJIA, p0), FromInt(100))
              midx == Mul(Div(al[i].CPI, m0), FromInt(100))
          IN [Date |-> al[i].Date,
              DJIA |-> al[i].DJIA,
              CPI  |-> al[i].CPI,
              DJIA_Indexed |-> pidx,
              CPI_Indexed  |-> midx,
              Real_Value   |-> RealValue(pidx, midx)]]

\* lines 20-51: .iloc[0] on an empty frame raises IndexError
get_data(djiaRaw, cpiRaw, s, e) ==
    LET al == Aligned(djiaRaw, cpiRaw, s, e)
    IN IF Len(al) = 0
       THEN [raised |-> "IndexError", table |-> <<>>]
       ELSE [raised |-> "none", table |-> Indexed(al, djiaRaw, cpiRaw)]

\* ------------------------------------------------------------ statistics
Column(rows, col) == [i \in 1..Len(rows) |-> rows[i][col]]

\* Series.corr (line 71): rows where either cell is NaN are masked out, then
\* numpy.corrcoef on what is left: covariance with ddof = 1, divided by the
\* two standard deviations.  The result is kept as its sign and its square.
\* With an open cell in a column the mask, and so the result, is open.
NaNCorr == [nan |-> TRUE, open |-> FALSE, sgn |-> 0, sq |-> NaN]

\* a correlation the model leaves open: NaN or any number
OpenCorr == [nan |-> FALSE, open |-> TRUE, sgn |-> 0, sq |-> Any]

Pearson(xs0, ys0) ==
    IF \E i \in 1..Len(xs0) : IsAny(xs0[i]) \/ IsAny(ys0[i]) THEN OpenCorr
    ELSE
    LET valid == {i \in 1..Len(xs0) : ~IsNaN(xs0[i]) /\ ~IsNaN(ys0[i])}
        idx == SeriesOf([i \in valid |-> i], valid)
        n  == Len(idx)
        xs == [k \in 1..n |-> xs0[idx[k].v]]
        ys == [k \in 1..n |-> ys0[idx[k].v]]
    IN IF n = 0 THEN NaNCorr
       ELSE
        LET mx == Div(Sum(xs), FromInt(n))
            my == Div(Sum(ys), FromInt(n))
            dx == [k \in 1..n |-> Sub(xs[k], mx)]
            dy == [k \in 1..n |-> Sub(ys[k], my)]
            fact == Div(FromInt(1), FromInt(n - 1))
            cxy == Mul(Sum([k \in 1..n |-> Mul(dx[k], dy[k])]), fact)
            cxx == Mul(Sum([k \in 1..n |-> Mul(dx[k], dx[k])]), fact)
            cyy == Mul(Sum([k \in 1..n |-> Mul(dy[k], dy[k])]), fact)
            sq  == Mul(Div(cxy, cxx), Div(cxy, cyy))
        IN IF IsNaN(sq) THEN NaNCorr
           ELSE IF IsAny(sq) THEN OpenCorr
           ELSE [nan |-> FALSE,
                 open |-> FALSE,
                 sgn |-> IF cxy.n = 0 THEN 0 ELSE cxy.s,
                 sq  |-> sq]

\* order of the exact value of corr and the positive threshold num/den
CorrCmp(c, num, den) ==
    IF c.sgn # 1 THEN -1
    ELSE Cmp(c.sq, Div(FromInt(num * num), FromInt(den * den)))

\* the outcomes of corr > num/den (line 83) and corr < num/den (line 85).
\* Both are false for NaN.  When the exact values tie, the rounding of corr
\* and of the literal decides, and either outcome is kept; so it is for an
\* open corr.
CorrGt(c, num, den) ==
    IF c.nan THEN {FALSE}
    ELSE IF c.open THEN BOOLEAN
    ELSE LET o == CorrCmp(c, num, den)
         IN IF o = 1 THEN {TRUE} ELSE IF o = -1 THEN {FALSE} ELSE BOOLEAN

CorrLt(c, num, den) ==
    IF c.nan THEN {FALSE}
    ELSE IF c.open THEN BOOLEAN
    ELSE LET o == CorrCmp(c, num, den)
         IN IF o = -1 THEN {TRUE} ELSE IF o = 1 THEN {FALSE} ELSE BOOLEAN

\* lines 68-71
Insights(rows) ==
    LET last == rows[Len(rows)]
        total_return == Mul(Sub(Div(last.DJIA_Indexed, FromInt(100)), FromInt(1)), FromInt(100))
        real_return  == Mul(Sub(Div(last.Real_Value, FromInt(100)), FromInt(1)), FromInt(100))
    IN [total_return |-> total_return,
        real_return  |-> real_return,
        erosion      |-> Sub(total_return, real_return),
        corr         |-> Pearson(Column(rows, "DJIA_Indexed"), Column(rows, "CPI_Indexed"))]

\* lines 83-88: the branches the if / elif / else can take
Sentiment(corr) ==
    {b \in {"High"} : TRUE \in CorrGt(corr, 7, 10)}
      \cup {b \in {"Low"} : FALSE \in CorrGt(corr, 7, 10) /\ TRUE \in CorrLt(corr, 3, 10)}
      \cup {b \in {"Moderate"} : FALSE \in CorrGt(corr, 7, 10) /\ FALSE \in CorrLt(corr, 3, 10)}

\* ------------------------------------------------------------ state
VARIABLES
    pc,          \* position: in the script (Spec) or in the functions (SpecFn)
    start, end,  \* sidebar inputs (lines 15-16)
    djia,        \* what yf.download returns for [start, end)
    cpi,         \* what the FRED CSV holds (any dates)
    data,        \* the frame returned by get_data, <<>> before and on a raise
    err,         \* the exception raised, "none" if none
    stats,       \* <<>> or <<the record of lines 68-71>>
    sentiment,   \* "none" or the branch taken at lines 83-88
    rendered     \* what the script has written to the page, in order

vars == <<pc, start, end, djia, cpi, data, err, stats, sentiment, rendered>>

\* ------------------------------------------------ the script as committed
Init ==
    /\ pc = "idle"
    /\ start = 1
    /\ end = 1
    /\ djia = <<>>
    /\ cpi = <<>>
    /\ data = <<>>
    /\ err = "none"
    /\ stats = <<>>
    /\ sentiment = "none"
    /\ rendered = <<>>

\* The user picks the dates (lines 15-16) and the two upstream feeds are what
\* they are that day: yf.download(start, end) delivers closes dated from start
\* up to, not including, end; the CSV holds readings of any date; all values
\* are positive.
Request ==
    /\ pc = "idle"
    /\ \E s \in Dates, e \in Ends :
         \E PD \in SUBSET {d \in Dates : s <= d /\ d < e}, MD \in SUBSET Dates :
           \E pv \in [PD -> Vals], mv \in [MD -> Vals] :
              /\ start' = s
              /\ end' = e
              /\ djia' = SeriesOf(pv, PD)
              /\ cpi' = SeriesOf(mv, MD)
    /\ pc' = "load"
    /\ UNCHANGED <<data, err, stats, sentiment, rendered>>

\* Running App.py: the try statement of line 52 is cut short by the dedented
\* line 100, compilation raises SyntaxError and no statement executes - no
\* fetch, no chart, no metric, no commentary, no st.error.
Load ==
    /\ pc = "load"
    /\ err' = "SyntaxError"
    /\ pc' = "done"
    /\ UNCHANGED <<start, end, djia, cpi, data, stats, sentiment, rendered>>

Next == Request \/ Load

Spec == Init /\ [][Next]_vars

\* ------------------------------- the statements of lines 53-88, in order
Inputs(vs) ==
    /\ \E s \in Dates, e \in Ends :
         \E PD \in SUBSET {d \in Dates : s <= d /\ d < e}, MD \in SUBSET Dates :
           \E pv \in [PD -> vs], mv \in [MD -> vs] :
              /\ start = s
              /\ end = e
              /\ djia = SeriesOf(pv, PD)
              /\ cpi = SeriesOf(mv, MD)
    /\ pc = "get_data"
    /\ data = <<>>
    /\ err = "none"
    /\ stats = <<>>
    /\ sentiment = "none"
    /\ rendered = <<>>

\* inputs that respect the input constraint price > 0, value > 0
InitFn == Inputs(Vals)

\* inputs that may carry zero or negative values
InitFnRaw == Inputs(RawVals)

\* lines 20-51 applied to the inputs
GetData ==
    /\ pc = "get_data"
    /\ LET res == get_data(djia, cpi, start, end)
       IN /\ data' = res.table
          /\ err' = res.raised
          /\ pc' = IF res.raised = "none" THEN "chart" ELSE "raised"
    /\ UNCHANGED <<start, end, djia, cpi, stats, sentiment, rendered>>

\* line 31: pd.read_csv raises when the upstream request fails
FetchFails ==
    /\ pc = "get_data"
    /\ err' = "URLError"
    /\ pc' = "raised"
    /\ UNCHANGED <<start, end, djia, cpi, data, stats, sentiment, rendered>>

\* lines 56-62: the three traces of the returned frame go to the page
RenderChart ==
    /\ pc = "chart"
    /\ rendered' = Append(rendered, "chart")
    /\ pc' = "insights"
    /\ UNCHANGED <<start, end, djia, cpi, data, err, stats, sentiment>>

\* lines 68-71 applied to the returned frame
ComputeInsights ==
    /\ pc = "insights"
    /\ stats' = <<Insights(data)>>
    /\ pc' = "metrics"
    /\ UNCHANGED <<start, end, djia, cpi, data, err, sentiment, rendered>>

\* lines 74-77: the three metrics go to the page, corr formatted with it
RenderMetrics ==
    /\ pc = "metrics"
    /\ rendered' = Append(rendered, "metrics")
    /\ pc' = "sentiment"
    /\ UNCHANGED <<start, end, djia, cpi, data, err, stats, sentiment>>

\* lines 83-99: the branch on corr, then the commentary goes to the page
SelectSentiment ==
    /\ pc = "sentiment"
    /\ sentiment' \in Sentiment(stats[1].corr)
    /\ rendered' = Append(rendered, "narrative")
    /\ pc' = "end"
    /\ UNCHANGED <<start, end, djia, cpi, data, err, stats>>

NextFn ==
    \/ GetData
    \/ FetchFails
    \/ RenderChart
    \/ ComputeInsights
    \/ RenderMetrics
    \/ SelectSentiment

SpecFn == InitFn /\ [][NextFn]_vars

SpecFnRaw == InitFnRaw /\ [][NextFn]_vars

\* get_data applied alone to inputs that respect the input constraint
NextGet == GetData \/ FetchFails

SpecGet == InitFn /\ [][NextGet]_vars

\* =================================================================== claims
Range(q) == {q[i] : i \in 1..Len(q)}

\* get_data has returned a table
Returned == pc \in {"chart", "insights", "metrics", "sentiment", "end"}

\* get_data has run to its end, by return or by raise, with both fetches done
Ran == Returned \/ (pc = "raised" /\ err # "URLError")

InRange(k) == start <= cpi[k].Date /\ cpi[k].Date <= end

\* the readings of the CSV that lie in [start, end] and are dated at or before d
Known(d) == {k \in 1..Len(cpi) : InRange(k) /\ cpi[k].Date <= d}

\* the aligned frame of the current inputs
Al == Aligned(djia, cpi, start, end)

Constant(col) == \A i, j \in 1..Len(col) : col[i] = col[j]

ZeroVariance(rows) ==
    Constant(Column(rows, "DJIA_Indexed")) \/ Constant(Column(rows, "CPI_Indexed"))

NonPositiveInput ==
    \/ \E i \in 1..Len(djia) : djia[i].v <= 0
    \/ \E k \in 1..Len(cpi) : InRange(k) /\ cpi[k].v <= 0

\* two finite cells agree within the floating-point tolerance 1e-9
Near(a, b) ==
    /\ a.d # 0
    /\ b.d # 0
    /\ LET df == Sub(a, b)
       IN df.n = 0 \/ (df.n < df.d /\ df.d \div df.n >= 1000000000)

\* C1: every row of the returned table carries the value of the most recent
\* CPI reading dated at or before the row's date inside [start, end], also
\* when that reading is dated on a day that is not a price date.
ForwardFillMostRecent ==
    Returned =>
      \A i \in 1..Len(data) :
        \E k \in Known(data[i].Date) :
          /\ \A j \in Known(data[i].Date) : cpi[j].Date <= cpi[k].Date
          /\ data[i].CPI = FromInt(cpi[k].v)

\* C2: whenever alignment leaves zero rows the routine fails with
\* InsufficientDataError; it never returns an empty table and never fails
\* with another kind of error.
EmptyRaisesInsufficientData ==
    /\ Returned => Len(data) > 0
    /\ (Ran /\ Len(Al) = 0) => err = "InsufficientDataError"

\* C3: when the price-index or the macro-index column of a table of two or
\* more rows is constant the correlation step fails with
\* UndefinedCorrelationError and no not-a-number correlation is produced.
ZeroVarianceRaises ==
    /\ \A i \in 1..Len(stats) : Len(data) >= 2 => ~stats[i].corr.nan
    /\ (pc = "end" /\ Len(data) >= 2 /\ ZeroVariance(data)) => err = "UndefinedCorrelationError"

\* C4: a zero or negative price or macro value makes the routine fail with
\* InvalidInputError, and no table is returned from such input (stated for
\* inputs that leave at least one aligned row).
NonPositiveRejected ==
    (Ran /\ NonPositiveInput /\ Len(Al) > 0) => (err = "InvalidInputError" /\ data = <<>>)

\* the request meets one of the failure conditions of the specification:
\* no aligned row, a non-positive value, or a constant index column
FailureCondition ==
    \/ Len(Al) = 0
    \/ NonPositiveInput
    \/ LET t == get_data(djia, cpi, start, end).table
       IN Len(t) >= 2 /\ ZeroVariance(t)

\* C5: a request that ends in a failure, or that meets a failure condition
\* of the specification, has at no point the chart or the metrics on the
\* page.
AllOrNothing ==
    (pc # "get_data" /\ (err # "none" \/ FailureCondition))
      => ("chart" \notin Range(rendered) /\ "metrics" \notin Range(rendered))

\* C6: the dates of the returned table are strictly increasing and are
\* exactly the price dates that have a reading in [start, end] dated at or
\* before them; nothing else is removed and no date is inserted.
CalendarExact ==
    Returned =>
      /\ \A i \in 1..(Len(data) - 1) : data[i].Date < data[i + 1].Date
      /\ {data[i].Date : i \in 1..Len(data)}
           = {djia[i].Date : i \in {j \in 1..Len(djia) : Known(djia[j].Date) # {}}}

\* C7: the first row of every returned table, that is the first row left
\* after the warm-up rows were dropped, has price index 100 and macro index
\* 100, exactly (no rounding).
BaseHundred ==
    Returned =>
      /\ Len(data) > 0
      /\ data[1].DJIA_Indexed = FromInt(100)
      /\ data[1].CPI_Indexed = FromInt(100)

\* C7 witness: a table whose first row is not the first fetched price row and
\* whose base price differs from the first fetched price
BaseHundredWitness ==
    /\ Returned
    /\ Len(data) >= 2
    /\ Len(data) < Len(djia)
    /\ data[1].Date # djia[1].Date
    /\ data[1].DJIA # FromInt(djia[1].v)
    /\ data[1].DJIA_Indexed = FromInt(100)
    /\ data[1].CPI_Indexed = FromInt(100)
    /\ data[2].DJIA_Indexed # FromInt(100)

\* C8: in every row real_index is price_index / macro_index * 100, and agrees
\* within floating-point tolerance with (price / p0) / (macro / m0) * 100,
\* p0 and m0 being the price and macro value of the first row of the table.
RealIndexIdentity ==
    Returned =>
      \A i \in 1..Len(data) :
        /\ data[i].Real_Value
             = Mul(Div(data[i].DJIA_Indexed, data[i].CPI_Indexed), FromInt(100))
        /\ Near(data[i].Real_Value,
                Mul(Div(Div(data[i].DJIA, data[1].DJIA), Div(data[i].CPI, data[1].CPI)),
                    FromInt(100)))

\* C8 witness: a table whose base CPI is not the first reading of the CSV and
\* that has a row whose real index moved away from 100
RealIndexIdentityWitness ==
    /\ Returned
    /\ Len(data) >= 2
    /\ Len(cpi) >= 2
    /\ data[1].CPI # FromInt(cpi[1].v)
    /\ \E i \in 1..Len(data) :
         /\ data[i].CPI # data[1].CPI
         /\ data[i].DJIA # data[1].DJIA
         /\ ~Near(data[i].Real_Value, FromInt(100))

\* C9: the macro value of every row, the base m0 included, is the value of a
\* reading dated inside [start, end] and at or before the row's date; price
\* dates before the first such reading are not in the table.
WindowRestriction ==
    Returned =>
      \A i \in 1..Len(data) :
        /\ \E k \in Known(data[i].Date) : data[i].CPI = FromInt(cpi[k].v)
        /\ data[i].CPI_Indexed = Mul(Div(data[i].CPI, data[1].CPI), FromInt(100))

\* C9 witness: the CSV holds a reading dated before start, a price date in
\* range precedes the first reading in range, and a table is returned
WindowRestrictionWitness ==
    /\ Returned
    /\ Len(data) > 0
    /\ \E k \in 1..Len(cpi) : cpi[k].Date < start /\ FromInt(cpi[k].v) # data[1].CPI
    /\ \E i \in 1..Len(djia) : Known(djia[i].Date) = {} /\ djia[i].Date < data[1].Date

\* C10: a request whose table has a single row, or a constant macro column,
\* ends as a success: the commentary takes the Moderate branch, chart,
\* metrics and narrative are on the page and no error state is entered.
NaNCorrModerate ==
    (pc = "done" /\ Len(Al) > 0 /\ (Len(Al) = 1 \/ Constant(Column(Al, "CPI")))) =>
         /\ sentiment = "Moderate"
         /\ rendered = <<"chart", "metrics", "narrative">>
         /\ err = "none"

====
